---- MODULE Spec2Model ----
(***************************************************************************)
(* Viralocal wizard (src/App.tsx) and its campaign orchestrator            *)
(* (src/services/geminiService.ts).                                        *)
(*                                                                         *)
(* Texts are sequences of tokens.  A token is one character ("b", " ") or  *)
(* an opaque chunk of a fixed literal of the source.  The precomposed      *)
(* accented letters are written "o^" (o circumflex), "e'" (e acute) and    *)
(* their capitals "O^", "E'"; combining marks are written "U+0302" etc.    *)
(* The progress value is kept in half percents (the smallest increment of  *)
(* the source is 0.5), so 5% is 10 and 100% is 200.                        *)
(***************************************************************************)
EXTENDS Integers, Sequences, FiniteSets, TLC

VARIABLES
    state,      \* the WizardState held by useState in App
    apiKey,     \* process.env.API_KEY || '' as a truth value
    fq,         \* the generateFollowUpQuestion call
    gc,         \* the generateCampaign call
    awaiting,   \* the handler of App suspended at an await ("none" when none)
    timer,      \* the setTimeout of handleGenerate
    interval,   \* TRUE while the setInterval of the progress effect is set
    effectQueued, \* TRUE when isLoading changed and its effect has not run yet
    ticks,      \* ticks of the interval applied in the current loading cycle
    tickLimit,  \* how many ticks of one loading cycle are explored
    reader,     \* the file the FileReader of FileUpload is reading (NoFile when none)
    lastEvent   \* the last callback that ran, its input and the window.alert it raised

vars == <<state, apiKey, fq, gc, awaiting, timer, interval,
          effectQueued, ticks, tickLimit, reader, lastEvent>>

(***************************************************************************)
(* Bounds                                                                  *)
(***************************************************************************)
MaxPad == 1
MaxParts == 1
MaxTicks == 1

(***************************************************************************)
(* JavaScript values                                                       *)
(***************************************************************************)
NULL == <<"null">>
UNDEFINED == <<"undefined">>

Falsy(v) == v \in {NULL, UNDEFINED, <<>>}

OrElse(a, b) == IF Falsy(a) THEN b ELSE a

Whitespace == {" ", "\t", "\n"}

RECURSIVE TrimStart(_)
TrimStart(s) ==
    IF s # <<>> /\ Head(s) \in Whitespace THEN TrimStart(Tail(s)) ELSE s

RECURSIVE TrimEnd(_)
TrimEnd(s) ==
    IF s # <<>> /\ s[Len(s)] \in Whitespace
    THEN TrimEnd(SubSeq(s, 1, Len(s) - 1))
    ELSE s

Trim(s) == TrimEnd(TrimStart(s))

\* response.text?.trim()
OptTrim(t) == IF t = UNDEFINED THEN UNDEFINED ELSE Trim(t)

Includes(s, sub) ==
    \E i \in 0..(Len(s) - Len(sub)) : SubSeq(s, i + 1, i + Len(sub)) = sub

RECURSIVE FlatMap(_, _)
FlatMap(F(_), s) == IF s = <<>> THEN <<>> ELSE F(Head(s)) \o FlatMap(F, Tail(s))

(***************************************************************************)
(* String.prototype.toLowerCase, normalize('NFD') and the removal of the   *)
(* combining marks U+0300..U+036F, on the letters the descriptions use     *)
(***************************************************************************)
LowerOfChar(c) ==
    CASE c = "A" -> "a" [] c = "B" -> "b" [] c = "D" -> "d" [] c = "E" -> "e"
      [] c = "I" -> "i" [] c = "K" -> "k" [] c = "L" -> "l" [] c = "N" -> "n"
      [] c = "O" -> "o" [] c = "P" -> "p" [] c = "R" -> "r" [] c = "S" -> "s"
      [] c = "T" -> "t" [] c = "O^" -> "o^" [] c = "E'" -> "e'"
      [] OTHER -> c

DecomposeChar(c) ==
    CASE c = "o^" -> <<"o", "U+0302">>
      [] c = "O^" -> <<"O", "U+0302">>
      [] c = "e'" -> <<"e", "U+0301">>
      [] c = "E'" -> <<"E", "U+0301">>
      [] OTHER -> <<c>>

CombiningMarks == {"U+0300", "U+0301", "U+0302", "U+0303", "U+0327"}

ToLowerCase(s) == [i \in 1..Len(s) |-> LowerOfChar(s[i])]

NormalizeNFD(s) == FlatMap(DecomposeChar, s)

StripMarkChar(c) == IF c \in CombiningMarks THEN <<>> ELSE <<c>>

StripCombining(s) == FlatMap(StripMarkChar, s)

NormalizeDesc(description) ==
    StripCombining(NormalizeNFD(ToLowerCase(description)))

BoloDePote == <<"b", "o", "l", "o", " ", "d", "e", " ", "p", "o", "t", "e">>
BoloNoPote == <<"b", "o", "l", "o", " ", "n", "o", " ", "p", "o", "t", "e">>

IsTemplateTrigger_NoNormalize(description) ==
    Includes(description, BoloDePote) \/ Includes(description, BoloNoPote)

IsTemplateTrigger(description) ==
    LET normalizedDesc == NormalizeDesc(description)
    IN  Includes(normalizedDesc, BoloDePote) \/ Includes(normalizedDesc, BoloNoPote)

(***************************************************************************)
(* Literals of the source                                                  *)
(***************************************************************************)
QuestionEmptyFallback == <<"Quais sao as variacoes ou modelos disponiveis?">>
QuestionErrorFallback == <<"Poderia dar mais detalhes tecnicos sobre o produto?">>
WizardQuestionFallback == <<"Quais os principais diferenciais deste produto?">>
TemplateSentinel == <<"TEMPLATE_BOLO_POTE_V1">>
TrendEmptyFallback == <<"Estilo moderno, clean, fundo solido e iluminacao de estudio.">>
TrendErrorFallback == <<"Estilo comercial high-end, iluminacao de estudio profissional, fundo neutro.">>
CopyPlaceholder == <<"Erro ao gerar texto.">>
ApiKeyMissing == <<"API Key missing">>
AlertStep2 == <<"Por favor, adicione uma foto e descricao.">>
AlertContact == <<"Preencha os dados de contato.">>
AlertGenerate == <<"Ocorreu um erro ao gerar o anuncio. Tente novamente.">>
MsgAnalysing == <<"Analisando seu produto com IA...">>
MsgCreating == <<"Criando arte viral e copy persuasiva...">>

(***************************************************************************)
(* What the AI gateway (ai.models.generateContent) can answer              *)
(***************************************************************************)
SeqsUpTo(S, n) == UNION {[1..k -> S] : k \in 0..n}

Pad(n) == [i \in 1..n |-> " "]

TextCores == {<<>>, <<"x">>}

\* a core with at most MaxPad blanks around it
Paddings == {p \in (0..MaxPad) \X (0..MaxPad) : p[1] + p[2] <= MaxPad}

GatewayTexts == {Pad(p[1]) \o c \o Pad(p[2]) : p \in Paddings, c \in TextCores}

Rejected == [kind |-> "rejected"]

TextResponse(t) == [kind |-> "response", text |-> t]

TextOutcomes ==
    {Rejected} \cup {TextResponse(t) : t \in GatewayTexts \cup {UNDEFINED}}

\* the answers to the trend search: any text, the text of line 51 included
TrendOutcomes == TextOutcomes \cup {TextResponse(TemplateSentinel)}

\* the answers to the copy call, whose text is used as it is
CopyTexts == {<<>>, <<" ">>, <<"x">>}

CopyOutcomes ==
    {Rejected} \cup {TextResponse(t) : t \in CopyTexts \cup {UNDEFINED}}

EditedImages == {<<"E1">>, <<"E2">>}

TextPart == [text |-> <<"t">>]
InlinePart(img) == [inlineData |-> [data |-> img]]

ImageParts == {TextPart} \cup {InlinePart(img) : img \in EditedImages}

ImageResponse(parts) == [kind |-> "response", parts |-> parts]

ImageOutcomes ==
    {Rejected} \cup {ImageResponse(p) : p \in SeqsUpTo(ImageParts, MaxParts)}

(***************************************************************************)
(* Inputs: product descriptions, images and the other campaign fields      *)
(***************************************************************************)
UpperOfChar(c) ==
    CASE c = "a" -> "A" [] c = "b" -> "B" [] c = "d" -> "D" [] c = "e" -> "E"
      [] c = "i" -> "I" [] c = "k" -> "K" [] c = "l" -> "L" [] c = "n" -> "N"
      [] c = "o" -> "O" [] c = "p" -> "P" [] c = "r" -> "R" [] c = "s" -> "S"
      [] c = "t" -> "T"
      [] OTHER -> c

PrecomposedOfChar(c) ==
    CASE c = "o" -> <<"o^">> [] c = "O" -> <<"O^">>
      [] c = "e" -> <<"e'">> [] c = "E" -> <<"E'">>
      [] OTHER -> <<c>>

DecomposedOfChar(c) ==
    CASE c = "o" -> <<"o", "U+0302">> [] c = "O" -> <<"O", "U+0302">>
      [] c = "e" -> <<"e", "U+0301">> [] c = "E" -> <<"E", "U+0301">>
      [] OTHER -> <<c>>

WithCase(s, mode) ==
    CASE mode = "upper" -> [i \in 1..Len(s) |-> UpperOfChar(s[i])]
      [] mode = "first" -> [i \in 1..Len(s) |-> IF i = 1 THEN UpperOfChar(s[i]) ELSE s[i]]
      [] OTHER -> s

WithAccents(s, mode) ==
    CASE mode = "precomposed" -> FlatMap(PrecomposedOfChar, s)
      [] mode = "decomposed" -> FlatMap(DecomposedOfChar, s)
      [] OTHER -> s

BasePhrases ==
    { BoloDePote,
      BoloNoPote \o <<" ", "x">>,
      <<"x", " ">> \o BoloDePote \o <<" ", "d", "e", " ", "m", "o", "r", "a", "n", "g", "o">>,
      <<"b", "o", "l", "o", " ", "d", "o", " ", "p", "o", "t", "e">>,
      <<"t", "e", "n", "i", "s", " ", "n", "i", "k", "e", " ", "a", "i", "r">>,
      <<>> }

Spellings ==
    { <<"lower", "plain">>, <<"first", "precomposed">>,
      <<"lower", "decomposed">>, <<"upper", "precomposed">> }

Descriptions ==
    {WithAccents(WithCase(b, sp[1]), sp[2]) : b \in BasePhrases, sp \in Spellings}

\* "Bolo de Pote de Morango" and "Tenis Nike Air" with a circumflex on the e
BoloDePoteDeMorango ==
    <<"B">> \o SubSeq(BoloDePote, 2, 8) \o <<"P">> \o SubSeq(BoloDePote, 10, 12)
        \o <<" ", "d", "e", " ", "M", "o", "r", "a", "n", "g", "o">>
TenisNikeAir ==
    <<"T", "e", "U+0302", "n", "i", "s", " ", "N", "i", "k", "e", " ", "A", "i", "r">>

RawImage == <<"P">>
OtherImage == <<"Q">>

\* a data URL as FileReader.readAsDataURL produces it
DataUrl(mime, payload) == <<"data:image/", mime, ";base64,">> \o payload

LowerAlphaMimes == {"jpeg", "png", "webp", "gif"}

\* base64.replace(/^data:image\/[a-z]+;base64,/, "")
stripBase64Prefix(base64) ==
    IF /\ Len(base64) >= 3
       /\ base64[1] = "data:image/"
       /\ base64[2] \in LowerAlphaMimes
       /\ base64[3] = ";base64,"
    THEN SubSeq(base64, 4, Len(base64))
    ELSE base64

Digits == <<"0", "1", "2", "3", "4", "5", "6", "7", "8", "9">>

IsDigit(c) == \E i \in 1..10 : Digits[i] = c

DigitValue(c) == (CHOOSE i \in 1..10 : Digits[i] = c) - 1

\* e.target.value.replace(/\D/g, '')
OnlyDigits(s) == SelectSeq(s, IsDigit)

RECURSIVE ParseInt(_)
ParseInt(ds) ==
    IF ds = <<>> THEN 0
    ELSE 10 * ParseInt(SubSeq(ds, 1, Len(ds) - 1)) + DigitValue(ds[Len(ds)])

RECURSIVE NatToText(_)
NatToText(n) ==
    IF n < 10 THEN <<Digits[n + 1]>>
    ELSE NatToText(n \div 10) \o <<Digits[(n % 10) + 1]>>

\* (cents / 100).toLocaleString('pt-BR', {style: 'currency', currency: 'BRL'})
\* for amounts below one thousand
FormatBRL(cents) ==
    <<"R", "$", " ">> \o NatToText(cents \div 100) \o <<",">>
        \o <<Digits[((cents % 100) \div 10) + 1], Digits[(cents % 10) + 1]>>

InitialData ==
    [ productImage |-> NULL,
      description |-> <<>>,
      dynamicQuestion |-> NULL,
      dynamicAnswer |-> <<>>,
      price |-> <<>>,
      contactPhone |-> <<>>,
      delivery |-> FALSE,
      location |-> <<>> ]

SomeAnswer == <<"a">>
SomePhone == <<"9">>
SomeLocation == <<"l">>

\* the arguments of a direct call of generateCampaign
ServiceInputs ==
    { [ productImage |-> RawImage,
        description |-> d,
        dynamicQuestion |-> QuestionEmptyFallback,
        dynamicAnswer |-> SomeAnswer,
        price |-> FormatBRL(5),
        contactPhone |-> SomePhone,
        delivery |-> FALSE,
        location |-> SomeLocation ] : d \in Descriptions \cup {BoloDePoteDeMorango, TenisNikeAir} }

(***************************************************************************)
(* generateFollowUpQuestion (geminiService.ts 11-41)                       *)
(***************************************************************************)
FqIdle ==
    [pc |-> "idle", description |-> <<>>, image |-> <<>>, result |-> UNDEFINED]

\* the synchronous part, up to the await of line 23
GenerateFollowUpQuestionStart(description, imageBase64) ==
    IF ~apiKey
    THEN [pc |-> "rejected", description |-> description, image |-> imageBase64,
          result |-> ApiKeyMissing]
    ELSE [pc |-> "awaiting", description |-> description, image |-> imageBase64,
          result |-> UNDEFINED]

FollowUpQuestionResult_NoFallback(outcome) ==
    IF outcome.kind = "rejected"
    THEN QuestionErrorFallback
    ELSE OptTrim(outcome.text)

FollowUpQuestionResult_SameFallback(outcome) ==
    IF outcome.kind = "rejected"
    THEN QuestionEmptyFallback
    ELSE OrElse(OptTrim(outcome.text), QuestionEmptyFallback)

FollowUpQuestionResult(outcome) ==
    IF outcome.kind = "rejected"
    THEN QuestionErrorFallback
    ELSE OrElse(OptTrim(outcome.text), QuestionEmptyFallback)

(***************************************************************************)
(* getDesignTrends, generateCampaign, generateBanner (46-277)              *)
(***************************************************************************)
BannerTypes == {"clean-square", "clean-story", "design-square"}

NoBanner == [status |-> "none", prompt |-> [type |-> "none"], value |-> UNDEFINED]

NoResult ==
    [copy |-> UNDEFINED, bannerSquare |-> UNDEFINED, bannerStory |-> UNDEFINED,
     bannerDesign |-> UNDEFINED]

GatewayError == <<"gateway error">>

GcIdle ==
    [ pc |-> "idle",
      data |-> InitialData,
      trend |-> [status |-> "none", value |-> UNDEFINED],
      copy |-> [status |-> "none", text |-> UNDEFINED],
      searchCalls |-> 0,
      designTrend |-> UNDEFINED,
      generatedCopy |-> UNDEFINED,
      banner |-> [t \in BannerTypes |-> NoBanner],
      result |-> NoResult,
      error |-> <<>> ]

DesignTrendResult_NoCatch(outcome) ==
    IF outcome.kind = "rejected"
    THEN UNDEFINED
    ELSE OrElse(OptTrim(outcome.text), TrendEmptyFallback)

\* the value getDesignTrends resolves to once its gateway call has settled
DesignTrendResult(outcome) ==
    IF outcome.kind = "rejected"
    THEN TrendErrorFallback
    ELSE OrElse(OptTrim(outcome.text), TrendEmptyFallback)

\* the prompt generateBanner builds, as the record of the values it embeds
BannerPrompt_CleanCarriesPrice(type, description, contactInfo, price, designTrend) ==
    CASE type = "clean-square" ->
            [type |-> "clean-square", description |-> description, price |-> price]
      [] type = "clean-story" ->
            [type |-> "clean-story", price |-> price]
      [] type = "design-square" /\ designTrend = TemplateSentinel ->
            [type |-> "design-template", contactInfo |-> contactInfo, price |-> price]
      [] OTHER ->
            [type |-> "design-generic", designTrend |-> designTrend,
             price |-> price, contactInfo |-> contactInfo]

BannerPrompt(type, description, contactInfo, price, designTrend) ==
    CASE type = "clean-square" ->
            [type |-> "clean-square", description |-> description]
      [] type = "clean-story" ->
            [type |-> "clean-story"]
      [] type = "design-square" /\ designTrend = TemplateSentinel ->
            [type |-> "design-template", contactInfo |-> contactInfo, price |-> price]
      [] OTHER ->
            [type |-> "design-generic", designTrend |-> designTrend,
             price |-> price, contactInfo |-> contactInfo]

RECURSIVE FirstInlineData(_)
FirstInlineData(parts) ==
    IF parts = <<>> THEN UNDEFINED
    ELSE IF "inlineData" \in DOMAIN Head(parts)
         THEN Head(parts).inlineData.data
         ELSE FirstInlineData(Tail(parts))

GenerateBannerResult_NoFallbackOnEmpty(imageBase64, outcome) ==
    IF outcome.kind = "rejected"
    THEN imageBase64
    ELSE FirstInlineData(outcome.parts)

\* the value generateBanner resolves to once its gateway call has settled
GenerateBannerResult(imageBase64, outcome) ==
    IF outcome.kind = "rejected"
    THEN imageBase64
    ELSE OrElse(FirstInlineData(outcome.parts), imageBase64)

\* the synchronous part of generateCampaign, up to the await of line 133
GenerateCampaignStart(data) ==
    IF ~apiKey
    THEN [GcIdle EXCEPT !.pc = "rejected", !.data = data, !.error = ApiKeyMissing]
    ELSE IF IsTemplateTrigger(data.description)
         THEN [GcIdle EXCEPT !.pc = "phase1", !.data = data,
                             !.trend = [status |-> "done", value |-> TemplateSentinel],
                             !.copy = [status |-> "pending", text |-> UNDEFINED]]
         ELSE [GcIdle EXCEPT !.pc = "phase1", !.data = data,
                             !.trend = [status |-> "pending", value |-> UNDEFINED],
                             !.searchCalls = 1,
                             !.copy = [status |-> "pending", text |-> UNDEFINED]]

\* lines 139-152: the three generateBanner calls, each up to its await
LaunchBanners(g) ==
    LET designTrend == g.trend.value
        generatedCopy == OrElse(g.copy.text, CopyPlaceholder)
    IN  [g EXCEPT !.pc = "phase2",
                  !.designTrend = designTrend,
                  !.generatedCopy = generatedCopy,
                  !.banner = [t \in BannerTypes |->
                      [status |-> "pending",
                       prompt |-> IF t = "design-square"
                                  THEN BannerPrompt(t, g.data.description,
                                         g.data.contactPhone, g.data.price, designTrend)
                                  ELSE BannerPrompt(t, g.data.description,
                                         UNDEFINED, UNDEFINED, UNDEFINED),
                       value |-> UNDEFINED]]]

AfterPhase1_NoTrendWait(g) ==
    IF g.pc # "phase1" THEN g
    ELSE IF g.copy.status = "rejected"
         THEN [g EXCEPT !.pc = "rejected", !.error = GatewayError]
         ELSE IF g.copy.status = "resolved"
              THEN LaunchBanners(g)
              ELSE g

\* line 133: Promise.all rejects as soon as the copy call rejects and resolves
\* once both promises have resolved
AfterPhase1(g) ==
    IF g.pc # "phase1" THEN g
    ELSE IF g.copy.status = "rejected"
         THEN [g EXCEPT !.pc = "rejected", !.error = GatewayError]
         ELSE IF g.trend.status = "done" /\ g.copy.status = "resolved"
              THEN LaunchBanners(g)
              ELSE g

\* lines 154-161
AfterPhase2(g) ==
    IF g.pc = "phase2" /\ \A t \in BannerTypes : g.banner[t].status = "done"
    THEN [g EXCEPT !.pc = "resolved",
                   !.result = [copy |-> g.generatedCopy,
                               bannerSquare |-> g.banner["clean-square"].value,
                               bannerStory |-> g.banner["clean-story"].value,
                               bannerDesign |-> g.banner["design-square"].value]]
    ELSE g

(***************************************************************************)
(* The wizard (App.tsx)                                                    *)
(***************************************************************************)
HOME == 0
DESCRIPTION == 1
DYNAMIC_QUESTION == 2
TECHNICAL_DETAILS == 3
PROCESSING == 4
RESULTS == 5

\* progress values, in half percents
ProgressSeed == 10
ProgressCap == 190
ProgressDone == 200

NullResults == [isNull |-> TRUE]

InitialState ==
    [ step |-> HOME,
      isLoading |-> FALSE,
      loadingMessage |-> <<>>,
      progress |-> 0,
      data |-> InitialData,
      results |-> NullResults ]

NoTimer == [pending |-> FALSE, results |-> NoResult]

NoArg == [none |-> TRUE]

Event(name, arg) == [name |-> name, arg |-> arg, alert |-> <<>>]

AlertEvent(name, arg, msg) == [name |-> name, arg |-> arg, alert |-> msg]

Settled(p) == p.pc \in {"resolved", "rejected"}

\* a handler of App can resume: promise reactions run before any other callback
ContinuationReady ==
    \/ awaiting = "goToStep2" /\ Settled(fq)
    \/ awaiting = "generate" /\ Settled(gc)

\* a timeout, a gateway answer or a user event is handled only when no
\* effect and no promise reaction is waiting to run
TaskCanRun == ~effectQueued /\ ~ContinuationReady

\* lines 74, 86-88: the interval is cleared by the cleanup of the effect
\* only, and the cleanup is a task of its own: a tick that is due can run
\* between the setState that changes isLoading and the cleanup
IntervalCanFire == ~ContinuationReady

\* lines 479-489: the step's form is rendered only when isLoading is false
FormShown(step) == TaskCanRun /\ ~state.isLoading /\ state.step = step

WizardDescriptions == {<<>>, BoloDePoteDeMorango, TenisNikeAir}

\* no read of the FileReader is outstanding
NoFile == [kind |-> "none", subtype |-> "", payload |-> <<>>]

Files ==
    { [kind |-> "image", subtype |-> "png", payload |-> RawImage],
      [kind |-> "image", subtype |-> "jpeg", payload |-> OtherImage],
      [kind |-> "text", subtype |-> "plain", payload |-> <<"T">>] }

PriceInputs == {<<>>, <<"a">>, <<"5">>, <<"R", "$", " ", "0", ",", "0", "5">>}

SetData(key, value) == [state EXCEPT !.data[key] = value]

----------------------------------------------------------------------------
(* gateway answers *)

QuestionResponse(outcome) ==
    /\ TaskCanRun
    /\ fq.pc = "awaiting"
    /\ fq' = [fq EXCEPT !.pc = "resolved", !.result = FollowUpQuestionResult(outcome)]
    /\ lastEvent' = Event("QuestionResponse", outcome)
    /\ UNCHANGED <<state, apiKey, gc, awaiting, timer, interval,
                   effectQueued, ticks, tickLimit, reader>>

TrendResponse(outcome) ==
    /\ TaskCanRun
    /\ gc.trend.status = "pending"
    /\ gc' = AfterPhase1([gc EXCEPT !.trend =
                 [status |-> "done", value |-> DesignTrendResult(outcome)]])
    /\ lastEvent' = Event("TrendResponse", outcome)
    /\ UNCHANGED <<state, apiKey, fq, awaiting, timer, interval,
                   effectQueued, ticks, tickLimit, reader>>

CopyResponse(outcome) ==
    /\ TaskCanRun
    /\ gc.copy.status = "pending"
    /\ gc' = AfterPhase1([gc EXCEPT !.copy =
                 IF outcome.kind = "rejected"
                 THEN [status |-> "rejected", text |-> UNDEFINED]
                 ELSE [status |-> "resolved", text |-> outcome.text]])
    /\ lastEvent' = Event("CopyResponse", outcome)
    /\ UNCHANGED <<state, apiKey, fq, awaiting, timer, interval,
                   effectQueued, ticks, tickLimit, reader>>

BannerResponse(t, outcome) ==
    /\ TaskCanRun
    /\ gc.banner[t].status = "pending"
    /\ gc' = AfterPhase2([gc EXCEPT !.banner[t].status = "done",
                 !.banner[t].value = GenerateBannerResult(gc.data.productImage, outcome)])
    /\ lastEvent' = Event("BannerResponse", [type |-> t, outcome |-> outcome])
    /\ UNCHANGED <<state, apiKey, fq, awaiting, timer, interval,
                   effectQueued, ticks, tickLimit, reader>>

GatewayAnswers ==
    \/ \E outcome \in TextOutcomes : QuestionResponse(outcome)
    \/ \E outcome \in TrendOutcomes : TrendResponse(outcome)
    \/ \E outcome \in CopyOutcomes : CopyResponse(outcome)
    \/ \E t \in BannerTypes, outcome \in ImageOutcomes : BannerResponse(t, outcome)

----------------------------------------------------------------------------
(* one direct call of one of the two exported operations *)

CallGenerateFollowUpQuestion ==
    /\ fq.pc = "idle" /\ gc.pc = "idle"
    /\ \E d \in {BoloDePoteDeMorango, TenisNikeAir}, img \in {RawImage} :
          /\ fq' = GenerateFollowUpQuestionStart(d, img)
          /\ lastEvent' = Event("generateFollowUpQuestion", [description |-> d])
    /\ UNCHANGED <<state, apiKey, gc, awaiting, timer, interval,
                   effectQueued, ticks, tickLimit, reader>>

CallGenerateCampaign ==
    /\ fq.pc = "idle" /\ gc.pc = "idle"
    /\ \E data \in ServiceInputs :
          /\ gc' = GenerateCampaignStart(data)
          /\ lastEvent' = Event("generateCampaign", [description |-> data.description])
    /\ UNCHANGED <<state, apiKey, fq, awaiting, timer, interval,
                   effectQueued, ticks, tickLimit, reader>>

----------------------------------------------------------------------------
(* user events and callbacks of App *)

\* line 117
handleStart ==
    /\ FormShown(HOME)
    /\ state' = [state EXCEPT !.step = DESCRIPTION]
    /\ lastEvent' = Event("handleStart", NoArg)
    /\ UNCHANGED <<apiKey, fq, gc, awaiting, timer, interval,
                   effectQueued, ticks, tickLimit, reader>>

\* FileUpload.handleFile and the onFileSelect of renderStep1
FileSelect(file) ==
    /\ FormShown(DESCRIPTION)
    /\ reader = NoFile
    /\ reader' = IF file.kind # "image" THEN NoFile ELSE file
    /\ lastEvent' = Event("handleFile", file)
    /\ UNCHANGED <<state, apiKey, fq, gc, awaiting, timer, interval,
                   effectQueued, ticks, tickLimit>>

\* part_000 lines 15-23, App.tsx line 215: the read ends in a task of its
\* own, whatever the wizard is doing by then
readerLoadEnd ==
    /\ TaskCanRun
    /\ reader # NoFile
    /\ state' = SetData("productImage", DataUrl(reader.subtype, reader.payload))
    /\ reader' = NoFile
    /\ lastEvent' = Event("onFileSelect", reader)
    /\ UNCHANGED <<apiKey, fq, gc, awaiting, timer, interval,
                   effectQueued, ticks, tickLimit>>

\* the onChange handlers of the text fields: updateData(key, e.target.value)
updateData(step, key, value) ==
    /\ FormShown(step)
    /\ state' = SetData(key, value)
    /\ lastEvent' = Event("updateData", [key |-> key, value |-> value])
    /\ UNCHANGED <<apiKey, fq, gc, awaiting, timer, interval,
                   effectQueued, ticks, tickLimit, reader>>

\* lines 96-115
handlePriceChange(value) ==
    /\ FormShown(DYNAMIC_QUESTION)
    /\ LET rawValue == OnlyDigits(value)
       IN  state' = IF rawValue = <<>>
                    THEN SetData("price", <<>>)
                    ELSE SetData("price", FormatBRL(ParseInt(rawValue)))
    /\ lastEvent' = Event("handlePriceChange", [value |-> value])
    /\ UNCHANGED <<apiKey, fq, gc, awaiting, timer, interval,
                   effectQueued, ticks, tickLimit, reader>>

\* renderStep3: onClick={() => updateData('delivery', !state.data.delivery)}
toggleDelivery ==
    /\ FormShown(TECHNICAL_DETAILS)
    /\ state' = SetData("delivery", ~state.data.delivery)
    /\ lastEvent' = Event("toggleDelivery", NoArg)
    /\ UNCHANGED <<apiKey, fq, gc, awaiting, timer, interval,
                   effectQueued, ticks, tickLimit, reader>>

Step2Refused_ImageNotChecked == Falsy(state.data.description)

\* line 122
Step2Refused == Falsy(state.data.description) \/ Falsy(state.data.productImage)

\* lines 121-133, up to the await
handleGoToStep2 ==
    /\ FormShown(DESCRIPTION)
    /\ IF Step2Refused
       THEN /\ lastEvent' = AlertEvent("handleGoToStep2", NoArg, AlertStep2)
            /\ UNCHANGED <<state, fq, awaiting, effectQueued>>
       ELSE /\ state' = [state EXCEPT !.isLoading = TRUE,
                                      !.loadingMessage = MsgAnalysing]
            /\ fq' = GenerateFollowUpQuestionStart(state.data.description,
                         stripBase64Prefix(state.data.productImage))
            /\ awaiting' = "goToStep2"
            /\ effectQueued' = TRUE
            /\ lastEvent' = Event("handleGoToStep2", NoArg)
    /\ UNCHANGED <<apiKey, gc, timer, interval, ticks, tickLimit, reader>>

Step2Question_NoFallback == IF fq.pc = "resolved" THEN fq.result ELSE NULL

\* lines 134 and 139: the question stored on either branch
Step2Question == IF fq.pc = "resolved" THEN fq.result ELSE WizardQuestionFallback

\* lines 134-141, after the await
resumeGoToStep2 ==
    /\ ~effectQueued
    /\ awaiting = "goToStep2"
    /\ Settled(fq)
    /\ state' = [state EXCEPT !.data.dynamicQuestion = Step2Question,
                              !.isLoading = FALSE,
                              !.step = DYNAMIC_QUESTION]
    /\ awaiting' = "none"
    /\ effectQueued' = state.isLoading
    /\ lastEvent' = Event("resumeGoToStep2", NoArg)
    /\ UNCHANGED <<apiKey, fq, gc, timer, interval, ticks, tickLimit, reader>>

Step3Refused_PriceNotChecked == Falsy(state.data.dynamicAnswer)

\* line 145
Step3Refused == Falsy(state.data.dynamicAnswer) \/ Falsy(state.data.price)

AdvanceToStep3_SetsLoading(s) ==
    [s EXCEPT !.step = TECHNICAL_DETAILS, !.isLoading = TRUE]

\* line 146
AdvanceToStep3(s) == [s EXCEPT !.step = TECHNICAL_DETAILS]

\* lines 144-147
handleGoToStep3 ==
    /\ FormShown(DYNAMIC_QUESTION)
    /\ lastEvent' = Event("handleGoToStep3", NoArg)
    /\ state' = IF Step3Refused THEN state ELSE AdvanceToStep3(state)
    /\ UNCHANGED <<apiKey, fq, gc, awaiting, timer, interval,
                   effectQueued, ticks, tickLimit, reader>>

StartGenerate_ProcessingStep(s) ==
    [s EXCEPT !.isLoading = TRUE, !.loadingMessage = MsgCreating,
              !.step = PROCESSING]

\* line 155
StartGenerate(s) ==
    [s EXCEPT !.isLoading = TRUE, !.loadingMessage = MsgCreating]

\* line 150
GenerateRefused == Falsy(state.data.contactPhone) \/ Falsy(state.data.location)

\* lines 149-161, up to the await; stripBase64Prefix(null) throws inside the
\* try block, which runs the catch of lines 181-185 in the same call
handleGenerate ==
    /\ FormShown(TECHNICAL_DETAILS)
    /\ IF GenerateRefused
       THEN /\ lastEvent' = AlertEvent("handleGenerate", NoArg, AlertContact)
            /\ UNCHANGED <<state, gc, awaiting, effectQueued>>
       ELSE IF state.data.productImage = NULL
            THEN /\ lastEvent' = AlertEvent("handleGenerate", NoArg, AlertGenerate)
                 /\ state' = [state EXCEPT !.loadingMessage = MsgCreating]
                 /\ UNCHANGED <<gc, awaiting, effectQueued>>
            ELSE /\ state' = StartGenerate(state)
                 /\ gc' = GenerateCampaignStart(
                             [state.data EXCEPT !.productImage =
                                 stripBase64Prefix(state.data.productImage)])
                 /\ awaiting' = "generate"
                 /\ effectQueued' = TRUE
                 /\ lastEvent' = Event("handleGenerate", NoArg)
    /\ UNCHANGED <<apiKey, fq, timer, interval, ticks, tickLimit, reader>>

GenerateFailed_StaysLoading(s) == s

GenerateFailed_BackToQuestion(s) ==
    [s EXCEPT !.isLoading = FALSE, !.step = DYNAMIC_QUESTION]

\* line 184: the state the catch branch of handleGenerate leaves
GenerateFailed(s) == [s EXCEPT !.isLoading = FALSE]

\* lines 163-185, after the await
resumeGenerate ==
    /\ ~effectQueued
    /\ awaiting = "generate"
    /\ Settled(gc)
    /\ awaiting' = "none"
    /\ IF gc.pc = "resolved"
       THEN /\ state' = [state EXCEPT !.progress = ProgressDone]
            /\ timer' = [pending |-> TRUE, results |-> gc.result]
            /\ lastEvent' = Event("resumeGenerate", NoArg)
            /\ UNCHANGED effectQueued
       ELSE /\ lastEvent' = AlertEvent("resumeGenerate", NoArg, AlertGenerate)
            /\ state' = GenerateFailed(state)
            /\ effectQueued' = (state.isLoading # GenerateFailed(state).isLoading)
            /\ UNCHANGED timer
    /\ UNCHANGED <<apiKey, fq, gc, interval, ticks, tickLimit, reader>>

\* lines 171-176: the results object built from what generateCampaign returned
ShownResults(results) ==
    [ isNull |-> FALSE,
      copy |-> results.copy,
      bannerSquare |-> DataUrl("jpeg", results.bannerSquare),
      bannerStory |-> DataUrl("jpeg", results.bannerStory),
      bannerDesign |-> DataUrl("jpeg", results.bannerDesign) ]

RevealResults_KeepsStep(s, results) ==
    [s EXCEPT !.isLoading = FALSE, !.results = ShownResults(results)]

RevealResults_StaysLoading(s, results) ==
    [s EXCEPT !.results = ShownResults(results), !.step = RESULTS]

\* lines 168-178: the updater of the setTimeout callback
RevealResults(s, results) ==
    [s EXCEPT !.isLoading = FALSE,
              !.results = ShownResults(results),
              !.step = RESULTS]

\* lines 167-179: the callback of setTimeout
timerFires ==
    /\ TaskCanRun
    /\ timer.pending
    /\ state' = RevealResults(state, timer.results)
    /\ timer' = NoTimer
    /\ effectQueued' = (state.isLoading # RevealResults(state, timer.results).isLoading)
    /\ lastEvent' = Event("timerFires", NoArg)
    /\ UNCHANGED <<apiKey, fq, gc, awaiting, interval, ticks, tickLimit, reader>>

SeedProgress_OnlyFromZero(s) ==
    IF s.progress = 0 THEN [s EXCEPT !.progress = ProgressSeed] ELSE s

\* line 72
SeedProgress(s) == [s EXCEPT !.progress = ProgressSeed]

\* lines 67-90: the effect of [state.isLoading], cleanup first
runEffect ==
    /\ effectQueued
    /\ effectQueued' = FALSE
    /\ IF state.isLoading
       THEN /\ state' = SeedProgress(state)
            /\ interval' = TRUE
            /\ ticks' = 0
       ELSE /\ interval' = FALSE
            /\ UNCHANGED <<state, ticks>>
    /\ lastEvent' = Event("runEffect", [progress |-> state.progress])
    /\ UNCHANGED <<apiKey, fq, gc, awaiting, timer, tickLimit, reader>>

TickProgress_SwappedSteps(p) ==
    IF p >= ProgressCap THEN p
    ELSE p + (IF p < 80 THEN 2 ELSE IF p < 140 THEN 4 ELSE 1)

TickProgress_NoCap(p) ==
    p + (IF p < 80 THEN 4 ELSE IF p < 140 THEN 2 ELSE 1)

TickProgress_EqualityCap(p) ==
    IF p = ProgressCap THEN p
    ELSE p + (IF p < 80 THEN 4 ELSE IF p < 140 THEN 2 ELSE 1)

TickProgress_ResetsAtCap(p) ==
    IF p >= ProgressCap THEN ProgressSeed
    ELSE p + (IF p < 80 THEN 4 ELSE IF p < 140 THEN 2 ELSE 1)

\* lines 75-83: the updater of one tick
TickProgress(p) ==
    IF p >= ProgressCap THEN p
    ELSE p + (IF p < 80 THEN 4 ELSE IF p < 140 THEN 2 ELSE 1)

tick ==
    /\ IntervalCanFire
    /\ interval
    /\ ticks < tickLimit
    /\ state' = [state EXCEPT !.progress = TickProgress(state.progress)]
    /\ ticks' = ticks + 1
    /\ lastEvent' = Event("tick", NoArg)
    /\ UNCHANGED <<apiKey, fq, gc, awaiting, timer, interval,
                   effectQueued, tickLimit, reader>>

ReloadEvent == Event("reload", [step |-> state.step, isLoading |-> state.isLoading])

reload_KeepsData ==
    /\ state' = [InitialState EXCEPT !.data = state.data]
    /\ fq' = FqIdle
    /\ gc' = GcIdle
    /\ awaiting' = "none"
    /\ timer' = NoTimer
    /\ interval' = FALSE
    /\ effectQueued' = FALSE
    /\ ticks' = 0
    /\ reader' = NoFile
    /\ lastEvent' = ReloadEvent
    /\ UNCHANGED <<apiKey, tickLimit>>

reload_KeepsTimer ==
    /\ state' = InitialState
    /\ fq' = FqIdle
    /\ gc' = GcIdle
    /\ awaiting' = "none"
    /\ interval' = FALSE
    /\ effectQueued' = FALSE
    /\ ticks' = 0
    /\ reader' = NoFile
    /\ lastEvent' = ReloadEvent
    /\ UNCHANGED <<apiKey, tickLimit, timer>>

\* lines 449 and 461: window.location.reload() starts the page again, which
\* also drops the page's outstanding requests and timers
reload ==
    /\ state' = InitialState
    /\ fq' = FqIdle
    /\ gc' = GcIdle
    /\ awaiting' = "none"
    /\ timer' = NoTimer
    /\ interval' = FALSE
    /\ effectQueued' = FALSE
    /\ ticks' = 0
    /\ reader' = NoFile
    /\ lastEvent' = ReloadEvent
    /\ UNCHANGED <<apiKey, tickLimit>>

----------------------------------------------------------------------------
Init ==
    /\ state = InitialState
    /\ apiKey \in BOOLEAN
    /\ fq = FqIdle
    /\ gc = GcIdle
    /\ awaiting = "none"
    /\ timer = NoTimer
    /\ interval = FALSE
    /\ effectQueued = FALSE
    /\ ticks = 0
    /\ tickLimit = MaxTicks
    /\ reader = NoFile
    /\ lastEvent = Event("init", NoArg)

\* What the gateway answers to the calls the wizard started. The wizard sees
\* of a generation its result only, so the trend search and the image edits
\* either fail or give one answer here; SpecService explores all of
\* GatewayAnswers.
GatewayAnswersWizard ==
    \/ \E outcome \in TextOutcomes : QuestionResponse(outcome)
    \/ \E outcome \in {Rejected, TextResponse(<<"x">>)} : TrendResponse(outcome)
    \/ \E outcome \in CopyOutcomes : CopyResponse(outcome)
    \/ \E t \in BannerTypes, outcome \in {Rejected, ImageResponse(<<InlinePart(<<"E1">>)>>)} :
            BannerResponse(t, outcome)

Next ==
    \/ handleStart
    \/ \E file \in Files : FileSelect(file)
    \/ readerLoadEnd
    \/ \E d \in WizardDescriptions : updateData(DESCRIPTION, "description", d)
    \/ \E a \in {<<>>, SomeAnswer} : updateData(DYNAMIC_QUESTION, "dynamicAnswer", a)
    \/ \E v \in PriceInputs : handlePriceChange(v)
    \/ \E v \in {<<>>, SomePhone} : updateData(TECHNICAL_DETAILS, "contactPhone", v)
    \/ \E v \in {<<>>, SomeLocation} : updateData(TECHNICAL_DETAILS, "location", v)
    \/ toggleDelivery
    \/ handleGoToStep2
    \/ resumeGoToStep2
    \/ handleGoToStep3
    \/ handleGenerate
    \/ resumeGenerate
    \/ timerFires
    \/ runEffect
    \/ tick
    \/ reload
    \/ GatewayAnswersWizard

Spec == Init /\ [][Next]_vars

\* the two exported operations of geminiService.ts called directly
NextService ==
    \/ CallGenerateFollowUpQuestion
    \/ CallGenerateCampaign
    \/ GatewayAnswers

SpecService == Init /\ [][NextService]_vars

\* A session whose user types one valid value in each field, where each
\* gateway call either fails or gives one answer, and whose interval has the
\* time to tick up to the cap and beyond
FullTicks == 100

InitProgress ==
    /\ state = InitialState
    /\ apiKey \in BOOLEAN
    /\ fq = FqIdle
    /\ gc = GcIdle
    /\ awaiting = "none"
    /\ timer = NoTimer
    /\ interval = FALSE
    /\ effectQueued = FALSE
    /\ ticks = 0
    /\ tickLimit = FullTicks
    /\ reader = NoFile
    /\ lastEvent = Event("init", NoArg)

GatewayAnswersProgress ==
    \/ \E outcome \in {Rejected, TextResponse(<<"x">>)} : QuestionResponse(outcome)
    \/ \E outcome \in {Rejected, TextResponse(<<"x">>)} : TrendResponse(outcome)
    \/ \E outcome \in {Rejected, TextResponse(<<"x">>)} : CopyResponse(outcome)
    \/ \E t \in BannerTypes, outcome \in {Rejected, ImageResponse(<<InlinePart(<<"E1">>)>>)} :
            BannerResponse(t, outcome)

NextProgress ==
    \/ handleStart
    \/ FileSelect([kind |-> "image", subtype |-> "png", payload |-> RawImage])
    \/ readerLoadEnd
    \/ updateData(DESCRIPTION, "description", TenisNikeAir)
    \/ updateData(DYNAMIC_QUESTION, "dynamicAnswer", SomeAnswer)
    \/ handlePriceChange(<<"5">>)
    \/ updateData(TECHNICAL_DETAILS, "contactPhone", SomePhone)
    \/ updateData(TECHNICAL_DETAILS, "location", SomeLocation)
    \/ handleGoToStep2
    \/ resumeGoToStep2
    \/ handleGoToStep3
    \/ handleGenerate
    \/ resumeGenerate
    \/ timerFires
    \/ runEffect
    \/ tick
    \/ reload
    \/ GatewayAnswersProgress

SpecProgress == InitProgress /\ [][NextProgress]_vars

\* The browser delivers every answer of the gateway, runs every promise
\* reaction and effect that is queued and fires every timer that is set;
\* nothing obliges the user to act or the interval to tick.
Fairness ==
    /\ WF_vars(GatewayAnswersProgress)
    /\ WF_vars(resumeGoToStep2)
    /\ WF_vars(resumeGenerate)
    /\ WF_vars(timerFires)
    /\ WF_vars(runEffect)

SpecFair == SpecProgress /\ Fairness

TypeOK ==
    /\ state.step \in {HOME, DESCRIPTION, DYNAMIC_QUESTION, TECHNICAL_DETAILS, PROCESSING, RESULTS}
    /\ state.isLoading \in BOOLEAN
    /\ state.progress \in 0..ProgressDone
    /\ awaiting \in {"none", "goToStep2", "generate"}
    /\ fq.pc \in {"idle", "awaiting", "resolved", "rejected"}
    /\ gc.pc \in {"idle", "phase1", "phase2", "resolved", "rejected"}

----------------------------------------------------------------------------
(* What the claims speak of, stated without the operators of the model *)

AllWhitespace(t) == \A i \in 1..Len(t) : t[i] \in Whitespace

\* r is t without its leading and trailing whitespace
IsTrimOf(r, t) ==
    /\ r # <<>> => r[1] \notin Whitespace /\ r[Len(r)] \notin Whitespace
    /\ \E i \in 0..Len(t) :
          /\ i + Len(r) <= Len(t)
          /\ SubSeq(t, i + 1, i + Len(r)) = r
          /\ AllWhitespace(SubSeq(t, 1, i))
          /\ AllWhitespace(SubSeq(t, i + Len(r) + 1, Len(t)))

\* the gateway answered without usable text
EmptyText(outcome) ==
    outcome.kind = "response" /\ (outcome.text = UNDEFINED \/ AllWhitespace(outcome.text))

IsText(v) == v \notin {NULL, UNDEFINED}

HasImagePayload(parts) == \E i \in 1..Len(parts) : "inlineData" \in DOMAIN parts[i]

FirstPayload(parts) ==
    LET i == CHOOSE k \in 1..Len(parts) :
                 /\ "inlineData" \in DOMAIN parts[k]
                 /\ \A j \in 1..(k - 1) : "inlineData" \notin DOMAIN parts[j]
    IN  parts[i].inlineData.data

\* the description is a spelling (case, accents) of a phrase that contains
\* "bolo de pote" or "bolo no pote"
TriggerSpellings ==
    {BoloDePoteDeMorango} \cup
    { WithAccents(WithCase(b, sp[1]), sp[2]) :
        b \in {p \in BasePhrases : Includes(p, BoloDePote) \/ Includes(p, BoloNoPote)},
        sp \in Spellings }

SpelledWithTrigger(d) == d \in TriggerSpellings

ResultFieldsPresent(r) ==
    /\ IsText(r.copy)
    /\ IsText(r.bannerSquare)
    /\ IsText(r.bannerStory)
    /\ IsText(r.bannerDesign)

----------------------------------------------------------------------------
\* C1: when handleGoToStep2, handleGoToStep3 or handleGenerate runs while one
\* of the fields it requires is empty or null, the step, isLoading, progress,
\* data and results stay as they were and no gateway call is started.
RefusedAdvanceChangesNothing ==
    [][ ( \/ /\ lastEvent'.name = "handleGoToStep2"
             /\ Falsy(state.data.description) \/ Falsy(state.data.productImage)
          \/ /\ lastEvent'.name = "handleGoToStep3"
             /\ Falsy(state.data.dynamicAnswer) \/ Falsy(state.data.price)
          \/ /\ lastEvent'.name = "handleGenerate"
             /\ Falsy(state.data.contactPhone) \/ Falsy(state.data.location) )
        => /\ state'.step = state.step
           /\ state'.isLoading = state.isLoading
           /\ state'.progress = state.progress
           /\ state'.data = state.data
           /\ state'.results = state.results
           /\ fq' = fq /\ gc' = gc /\ awaiting' = awaiting /\ timer' = timer
    ]_vars

\* handleGoToStep2 has just refused a description that has no image
WitnessRefusedAdvance ==
    /\ lastEvent.name = "handleGoToStep2"
    /\ lastEvent.alert = AlertStep2
    /\ state.step = DESCRIPTION
    /\ ~Falsy(state.data.description)
    /\ Falsy(state.data.productImage)
    /\ fq.pc = "idle"

\* C2: with an API key configured and an image present, generateCampaign
\* never rejects, whatever its five sub-calls do, and the result it resolves
\* to has its four fields present.
GenerateCampaignAlwaysResolves ==
    (apiKey /\ gc.pc # "idle" /\ ~Falsy(gc.data.productImage))
        => /\ gc.pc # "rejected"
           /\ gc.pc = "resolved" => ResultFieldsPresent(gc.result)

\* C3: a copy call that rejects or returns empty text leaves generateCampaign
\* running or resolved, and the copy of the result is then the placeholder.
CopyFailureYieldsPlaceholder ==
    (gc.copy.status = "rejected" \/ (gc.copy.status = "resolved" /\ Falsy(gc.copy.text)))
        => /\ gc.pc \in {"phase1", "phase2", "resolved"}
           /\ gc.pc = "resolved" => gc.result.copy = CopyPlaceholder

\* C4 as stated: generateFollowUpQuestion never rejects.
FollowUpQuestionNeverRejects == fq.pc # "rejected"

\* C4 as amended: with an API key configured generateFollowUpQuestion never
\* rejects and whatever it resolves to is a non-empty string; without an API
\* key it rejects with "API Key missing" before any gateway call.
FollowUpQuestionResolvesWhenKeyed ==
    /\ apiKey => fq.pc # "rejected"
    /\ fq.pc = "resolved" => IsText(fq.result) /\ fq.result # <<>>
    /\ (~apiKey /\ fq.pc # "idle") => fq.pc = "rejected" /\ fq.result = ApiKeyMissing

\* the gateway rejected and the call still resolved
WitnessQuestionAfterRejection ==
    /\ fq.pc = "resolved"
    /\ lastEvent.name = "QuestionResponse"
    /\ lastEvent.arg.kind = "rejected"

\* C5: the step that settles the gateway call of generateFollowUpQuestion
\* resolves it to the trimmed text when that is non-empty, to the empty-result
\* fallback when the text is missing, empty or blank, and to the error fallback
\* when the gateway rejected; the two fallbacks differ.
FollowUpQuestionValue ==
    [][ (fq.pc = "awaiting" /\ fq'.pc # "awaiting" /\ lastEvent'.name = "QuestionResponse")
        => LET o == lastEvent'.arg
           IN  /\ fq'.pc = "resolved"
               /\ o.kind = "rejected" => fq'.result = QuestionErrorFallback
               /\ EmptyText(o) => fq'.result = QuestionEmptyFallback
               /\ (o.kind = "response" /\ ~EmptyText(o)) => IsTrimOf(fq'.result, o.text)
               /\ QuestionEmptyFallback # QuestionErrorFallback
    ]_vars

\* the gateway text had blanks around it and the question is the text without them
WitnessTrimmedQuestion ==
    /\ fq.pc = "resolved"
    /\ lastEvent.name = "QuestionResponse"
    /\ lastEvent.arg.kind = "response"
    /\ lastEvent.arg.text # UNDEFINED
    /\ fq.result = <<"x">>
    /\ lastEvent.arg.text # fq.result

\* C6: once handleGoToStep2 has passed its validation the wizard stays on
\* DESCRIPTION with isLoading set until the call settles, and the step that
\* ends the wait sets step = DYNAMIC_QUESTION, clears isLoading and stores a
\* non-empty question: the one returned, or the wizard's fallback when the
\* call rejected.
Step2AlwaysAdvances ==
    [][ (awaiting = "goToStep2" /\ lastEvent'.name # "reload")
        => \/ /\ awaiting' = "goToStep2"
              /\ state'.step = DESCRIPTION
              /\ state'.isLoading
           \/ /\ awaiting' = "none"
              /\ Settled(fq)
              /\ state'.step = DYNAMIC_QUESTION
              /\ ~state'.isLoading
              /\ IsText(state'.data.dynamicQuestion)
              /\ state'.data.dynamicQuestion # <<>>
              /\ fq.pc = "resolved" => state'.data.dynamicQuestion = fq.result
              /\ fq.pc = "rejected" => state'.data.dynamicQuestion = WizardQuestionFallback
    ]_vars

\* the call rejected and the wizard advanced with its own fallback question
WitnessStep2AfterRejection ==
    /\ lastEvent.name = "resumeGoToStep2"
    /\ fq.pc = "rejected"
    /\ state.step = DYNAMIC_QUESTION
    /\ ~state.isLoading
    /\ state.data.dynamicQuestion = WizardQuestionFallback

\* C7: the step that settles one image-edit call stores the first image of
\* its response in that slot, or the input image when the call rejected or
\* the response has no image; it changes no other slot and never rejects
\* generateCampaign, whose result carries the three slots as they are.
BannerFallbackIndependent ==
    [][ \A t \in BannerTypes :
          (gc.banner[t].status = "pending" /\ gc'.banner[t].status = "done")
          => /\ lastEvent'.name = "BannerResponse"
             /\ lastEvent'.arg.type = t
             /\ LET o == lastEvent'.arg.outcome
                IN  gc'.banner[t].value =
                       IF o.kind = "rejected" \/ ~HasImagePayload(o.parts)
                       THEN gc.data.productImage
                       ELSE FirstPayload(o.parts)
             /\ \A u \in BannerTypes \ {t} : gc'.banner[u] = gc.banner[u]
             /\ gc'.pc \in {"phase2", "resolved"}
             /\ gc'.pc = "resolved" =>
                   /\ gc'.result.bannerSquare = gc'.banner["clean-square"].value
                   /\ gc'.result.bannerStory = gc'.banner["clean-story"].value
                   /\ gc'.result.bannerDesign = gc'.banner["design-square"].value
    ]_vars

\* the story call failed, the two others returned an image, the call resolved
WitnessOneBannerFailed ==
    /\ gc.pc = "resolved"
    /\ gc.result.bannerStory = gc.data.productImage
    /\ gc.result.bannerSquare \in EditedImages
    /\ gc.result.bannerDesign \in EditedImages

\* C8: an image-edit call exists only after the trend lookup and the copy
\* call have both completed, and generateCampaign has resolved only after the
\* three image-edit calls have completed.
BannersAfterJoin ==
    /\ (\E t \in BannerTypes : gc.banner[t].status # "none")
          => gc.trend.status = "done" /\ gc.copy.status = "resolved"
    /\ gc.pc = "resolved" => \A t \in BannerTypes : gc.banner[t].status = "done"

\* the trend lookup completed after the copy call and launched the banners
WitnessTrendCompletedLast ==
    /\ lastEvent.name = "TrendResponse"
    /\ gc.pc = "phase2"
    /\ \A t \in BannerTypes : gc.banner[t].status = "pending"

\* C9: once generateCampaign has started its trend lookup, a description
\* spelled with a trigger phrase has the sentinel as its trend and no search
\* call, and any other description has exactly one search call.
TemplateSkipsSearch ==
    gc.trend.status # "none"
        => IF SpelledWithTrigger(gc.data.description)
           THEN /\ gc.searchCalls = 0
                /\ gc.trend.status = "done"
                /\ gc.trend.value = TemplateSentinel
           ELSE gc.searchCalls = 1

\* a trigger phrase in capitals with accents went through generateCampaign
WitnessAccentedTrigger ==
    /\ gc.pc = "resolved"
    /\ gc.data.description = WithAccents(WithCase(BoloDePote, "upper"), "precomposed")
    /\ gc.designTrend = TemplateSentinel
    /\ gc.searchCalls = 0

\* C10: the step that settles the trend lookup with a rejection or an empty
\* text resolves the trend to the fixed string of that case; generateCampaign
\* then launches the image-edit calls if the copy call has resolved and keeps
\* waiting for it otherwise, and no answer to the trend lookup rejects it.
TrendFailureFallsBack ==
    [][ (gc.trend.status = "pending" /\ gc'.trend.status = "done"
           /\ lastEvent'.name = "TrendResponse")
        => LET o == lastEvent'.arg
           IN  /\ o.kind = "rejected" => gc'.trend.value = TrendErrorFallback
               /\ EmptyText(o) => gc'.trend.value = TrendEmptyFallback
               /\ gc'.pc = gc.pc \/ (gc.pc = "phase1" /\ gc'.pc = "phase2")
               /\ (gc.pc = "phase1" /\ gc.copy.status = "resolved")
                     => /\ gc'.pc = "phase2"
                        /\ gc'.designTrend = gc'.trend.value
                        /\ \A t \in BannerTypes : gc'.banner[t].status = "pending"
    ]_vars

\* the trend lookup rejected and the image-edit calls run with the fallback
WitnessTrendRejected ==
    /\ lastEvent.name = "TrendResponse"
    /\ lastEvent.arg.kind = "rejected"
    /\ gc.pc = "phase2"
    /\ gc.designTrend = TrendErrorFallback


----------------------------------------------------------------------------
(* the wizard around a generation *)

\* what handleGenerate handed to generateCampaign, as the form holds it
SubmittedData(data) ==
    [data EXCEPT !.productImage = stripBase64Prefix(data.productImage)]

\* C11: when generateCampaign fails during the step from TechnicalDetails to
\* Results, the wizard shows the generation alert and is left at step
\* TechnicalDetails with isLoading false, no results, no timer set and the
\* campaign fields as they were: the step changes none, and the typed fields
\* are the submitted ones.
GenerateFailureKeepsForm ==
    [][(awaiting = "generate" /\ gc.pc = "rejected"
            /\ lastEvent'.name = "resumeGenerate")
       => /\ lastEvent'.alert = AlertGenerate
          /\ state'.step = TECHNICAL_DETAILS
          /\ ~state'.isLoading
          /\ state'.results.isNull
          /\ ~timer'.pending
          /\ state'.data = state.data
          /\ \A k \in DOMAIN gc.data \ {"productImage"} :
                state'.data[k] = gc.data[k]]_vars

WitnessGenerateFailed ==
    /\ lastEvent.name = "resumeGenerate"
    /\ lastEvent.alert = AlertGenerate
    /\ gc.pc = "rejected"
    /\ gc.copy.status = "rejected"
    /\ state.step = TECHNICAL_DETAILS
    /\ ~state.isLoading

\* C12: in every reachable state results is non-null exactly when the step is
\* Results, and a non-null results has its copy and its three banners
\* present.
ResultsExactlyAtResultsStep ==
    /\ (~state.results.isNull) <=> (state.step = RESULTS)
    /\ ~state.results.isNull =>
          /\ IsText(state.results.copy)
          /\ IsText(state.results.bannerSquare)
          /\ IsText(state.results.bannerStory)
          /\ IsText(state.results.bannerDesign)

WitnessResultsShown ==
    /\ state.step = RESULTS
    /\ ~state.results.isNull
    /\ lastEvent.name = "timerFires"

LoadingEventuallyClears ==
    /\ [](awaiting # "none" => state.isLoading)
    /\ state.isLoading ~> ~state.isLoading

WitnessLoadingCleared ==
    /\ lastEvent.name = "runEffect"
    /\ ~state.isLoading
    /\ ~interval
    /\ state.step = RESULTS


----------------------------------------------------------------------------
(* the progress simulation *)

\* the explicit 100% of the current cycle has been issued
DoneSignalled == timer.pending

\* C15: while isLoading is true and the 100% of the cycle has not been
\* issued, progress is at most 95, however many ticks have been applied.
ProgressCappedWhileLoading ==
    (state.isLoading /\ ~DoneSignalled) => state.progress <= 2 * 95

WitnessTickAtCap ==
    /\ lastEvent.name = "tick"
    /\ state.isLoading
    /\ ~DoneSignalled
    /\ state.progress = 2 * 95
    /\ ticks > 97


\* C16 as stated: no step taken in a state with isLoading true (tick,
\* seeding, explicit 100%, call completion) lowers progress.
ProgressNeverLoweredWhileLoading ==
    [][(state.isLoading /\ lastEvent'.name # "reload")
       => state'.progress >= state.progress]_vars

\* C16 amended: while isLoading is true only the seeding at the start of a
\* cycle can lower progress, and it sets it to the seed whatever it was;
\* every other step taken while loading leaves progress or raises it.
ProgressLoweredOnlyBySeeding ==
    [][(state.isLoading /\ lastEvent'.name # "reload")
       => IF lastEvent'.name = "runEffect"
          THEN state'.progress = 2 * 5
          ELSE state'.progress >= state.progress]_vars

WitnessSecondCycleReseeded ==
    /\ lastEvent.name = "runEffect"
    /\ lastEvent.arg.progress > 2 * 5
    /\ state.isLoading
    /\ state.step = TECHNICAL_DETAILS
    /\ state.progress = 2 * 5


\* C17: when the generation succeeds, progress is set to 100 in a step that
\* leaves isLoading true, the step TechnicalDetails and results null; the
\* step that sets the step to Results is a later one, it clears isLoading and
\* stores the results, and progress is 100 before and after it, whatever
\* ticks came in between.
DoneBeforeResults ==
    [][/\ (awaiting = "generate" /\ gc.pc = "resolved"
              /\ lastEvent'.name = "resumeGenerate")
          => /\ state'.progress = 2 * 100
             /\ state'.isLoading
             /\ state'.step = TECHNICAL_DETAILS
             /\ state'.results.isNull
       /\ (state.step # RESULTS /\ state'.step = RESULTS)
          => /\ lastEvent'.name # "resumeGenerate"
             /\ state.progress = 2 * 100
             /\ state.isLoading
             /\ state'.progress = 2 * 100
             /\ ~state'.isLoading
             /\ ~state'.results.isNull]_vars

WitnessTickDuringGrace ==
    /\ lastEvent.name = "tick"
    /\ DoneSignalled
    /\ state.isLoading
    /\ state.step = TECHNICAL_DETAILS
    /\ state.progress = 2 * 100

----------------------------------------------------------------------------
(* the reset *)

\* C18: the reset taken from Results leaves the wizard in the state of a
\* fresh session: step Home, isLoading false, progress 0, every input empty,
\* null or false, results null, and nothing outstanding.
ResetRestoresInitialState ==
    [][(state.step = RESULTS /\ lastEvent'.name = "reload")
       => /\ state'.step = HOME
          /\ ~state'.isLoading
          /\ state'.progress = 0
          /\ state'.data.productImage = NULL
          /\ state'.data.dynamicQuestion = NULL
          /\ \A k \in {"description", "dynamicAnswer", "price",
                       "contactPhone", "location"} : state'.data[k] = <<>>
          /\ ~state'.data.delivery
          /\ state'.results.isNull
          /\ awaiting' = "none"
          /\ ~timer'.pending
          /\ ~interval'
          /\ ~effectQueued']_vars

WitnessResetFromResults ==
    /\ lastEvent.name = "reload"
    /\ lastEvent.arg.step = RESULTS
    /\ state.step = HOME

\* the events of the user
UserEvents ==
    {"handleStart", "handleFile", "onFileSelect", "updateData", "handlePriceChange",
     "toggleDelivery", "handleGoToStep2", "handleGoToStep3",
     "handleGenerate", "reload"}

\* C19: a reset leaves no call, timer or interval of the old session
\* outstanding, and as long as the session has started no operation of its
\* own only an event of the user, or a tick of its own interval, changes
\* the wizard's state: no completion of the old session modifies it.
StaleCompletionsNeverApply ==
    [][/\ lastEvent'.name = "reload"
          => /\ awaiting' = "none"
             /\ ~timer'.pending
             /\ ~interval'
             /\ fq'.pc = "idle"
             /\ gc'.pc = "idle"
       /\ (awaiting = "none" /\ ~timer.pending /\ state' # state)
          => lastEvent'.name \in UserEvents \cup {"tick"}]_vars

WitnessResetWhileLoading ==
    /\ lastEvent.name = "reload"
    /\ lastEvent.arg.isLoading
    /\ lastEvent.arg.step = TECHNICAL_DETAILS
    /\ state.step = HOME
    /\ ~timer.pending

\* C20: when isLoading goes from false to true no interval is set yet; the
\* interval is set in the step that writes the seed 5 to progress, whatever
\* progress was; and only a set interval ticks.
SeededBeforeAnyTick ==
    [][/\ (~state.isLoading /\ state'.isLoading) => (~interval' /\ effectQueued')
       /\ (~interval /\ interval') => (state'.isLoading /\ state'.progress = 2 * 5)
       /\ lastEvent'.name = "tick" => interval]_vars

WitnessSeededFromCap ==
    /\ lastEvent.name = "runEffect"
    /\ lastEvent.arg.progress = 2 * 95
    /\ state.isLoading
    /\ interval
    /\ state.progress = 2 * 5


\* progress, in half percents, after n ticks of a cycle seeded at 5:
\* 18 steps of 2 up to 41, 29 steps of 1 up to 70, 50 steps of 0.5 up to 95
AfterTicks(n) ==
    IF n <= 18 THEN 10 + 4 * n
    ELSE IF n <= 47 THEN 82 + 2 * (n - 18)
    ELSE IF n <= 97 THEN 140 + (n - 47)
    ELSE 190

\* C21: a tick leaves progress unchanged at 95 or above and otherwise adds 2
\* below 40, 1 from 40 to below 70 and 0.5 from 70; no smaller progress gets a
\* smaller increment; and the ticks of a cycle take progress from the seed 5
\* to exactly 95, where it stays.
TickIncrements ==
    /\ [][lastEvent'.name = "tick"
          => /\ state'.progress - state.progress =
                   (IF state.progress >= 2 * 95 THEN 0
                    ELSE IF state.progress < 2 * 40 THEN 4
                    ELSE IF state.progress < 2 * 70 THEN 2
                    ELSE 1)
             /\ \A q \in 0..state.progress :
                   q < 2 * 95 => TickProgress(q) - q >= state'.progress - state.progress]_vars
    /\ []((interval /\ state.isLoading /\ ~DoneSignalled)
             => state.progress = AfterTicks(ticks))

WitnessNinetyFiveReached ==
    /\ lastEvent.name = "tick"
    /\ ticks = 97
    /\ state.isLoading
    /\ state.progress = 2 * 95


\* C22: in a state with isLoading false no tick is applied and no step other
\* than a reset changes progress: the value a cycle ended with stays until
\* the next cycle is seeded.
ProgressFrozenWhenIdle ==
    [][(~state.isLoading /\ lastEvent'.name # "reload")
       => /\ lastEvent'.name # "tick"
          /\ state'.progress = state.progress]_vars


----------------------------------------------------------------------------
(* the steps of the wizard *)

\* C23: in every reachable state the step is Home, DescriptionInput,
\* DynamicQuestion, TechnicalDetails or Results, never Processing; while a
\* generation or its grace timer is outstanding the step is TechnicalDetails
\* and isLoading is true.
StepNeverProcessing ==
    /\ state.step \in {HOME, DESCRIPTION, DYNAMIC_QUESTION, TECHNICAL_DETAILS, RESULTS}
    /\ state.step # PROCESSING
    /\ (awaiting = "generate" \/ timer.pending)
          => (state.isLoading /\ state.step = TECHNICAL_DETAILS)

WitnessGenerating ==
    /\ awaiting = "generate"
    /\ gc.pc = "phase2"
    /\ state.isLoading
    /\ state.step = TECHNICAL_DETAILS

\* C24: handleGoToStep3 sets the step to TechnicalDetails when the answer and
\* the price are non-empty and changes nothing else: no gateway call, no
\* isLoading, no change of progress, data or results.
Step3IsLocal ==
    [][lastEvent'.name = "handleGoToStep3"
       => /\ state'.step =
                (IF state.data.dynamicAnswer # <<>> /\ state.data.price # <<>>
                 THEN TECHNICAL_DETAILS ELSE state.step)
          /\ state'.isLoading = state.isLoading
          /\ ~state'.isLoading
          /\ state'.progress = state.progress
          /\ state'.data = state.data
          /\ state'.results = state.results
          /\ <<fq, gc, awaiting, timer, interval, effectQueued>>' =
                <<fq, gc, awaiting, timer, interval, effectQueued>>]_vars

WitnessStep3KeepsProgress ==
    /\ lastEvent.name = "handleGoToStep3"
    /\ state.step = TECHNICAL_DETAILS
    /\ state.progress > 0
    /\ ~state.isLoading
    /\ gc.pc = "idle"
    /\ fq.pc # "awaiting"


----------------------------------------------------------------------------
(* the prompts of the three image-edit calls *)

BannersLaunched == gc.banner["design-square"].status # "none"

\* C25: of the three image-edit requests only design-square depends on the
\* trend, the price and the contact: its prompt is the template prompt or
\* embeds the resolved trend, with the price and the contact in both cases;
\* the clean-square prompt is made of the description alone and the
\* clean-story prompt of nothing, whatever the trend lookup gave.
OnlyDesignPromptUsesTrend ==
    BannersLaunched =>
       /\ gc.banner["clean-square"].prompt =
             [type |-> "clean-square", description |-> gc.data.description]
       /\ gc.banner["clean-story"].prompt = [type |-> "clean-story"]
       /\ LET design == gc.banner["design-square"].prompt
          IN  /\ design.price = gc.data.price
              /\ design.contactInfo = gc.data.contactPhone
              /\ \/ design.type = "design-template"
                 \/ /\ design.type = "design-generic"
                    /\ design.designTrend = gc.trend.value

\* the scenario of the spec: a trend text found by the search is embedded
WitnessTrendEmbedded ==
    /\ BannersLaunched
    /\ gc.data.description = TenisNikeAir
    /\ gc.trend.value = <<"x">>
    /\ gc.banner["design-square"].prompt.type = "design-generic"
    /\ gc.banner["design-square"].prompt.designTrend = <<"x">>

\* C26: the design banner has the template prompt exactly when the
\* description is spelled with a trigger phrase, whatever the search answers.
TemplatePromptIffTrigger ==
    BannersLaunched =>
       (gc.banner["design-square"].prompt.type = "design-template"
           <=> SpelledWithTrigger(gc.data.description))


----------------------------------------------------------------------------
(* the order of the steps and of the operations *)

\* the forward transitions of the wizard
NextStepOf(step) ==
    CASE step = 0 -> 1
      [] step = 1 -> 2
      [] step = 2 -> 3
      [] step = 3 -> 5
      [] OTHER -> step

\* C27: a step other than a reset leaves the step value or moves it to the
\* next of Home, DescriptionInput, DynamicQuestion, TechnicalDetails, Results;
\* a reset sets it to Home.
StepOnlyAdvances ==
    [][IF lastEvent'.name = "reload"
       THEN state'.step = 0
       ELSE state'.step \in {state.step, NextStepOf(state.step)}]_vars

WitnessStepKeptAfterFailure ==
    /\ lastEvent.name = "runEffect"
    /\ gc.pc = "rejected"
    /\ ~state.isLoading
    /\ state.step = TECHNICAL_DETAILS

\* the forms' events: the field updates and the advance actions
FormEvents == UserEvents \ {"reload"}

\* C28: the question fetch, the generation and the grace timer are never
\* outstanding two at a time, and isLoading is true while one is; no event of
\* a form is handled while isLoading is true; so a completion finds the step
\* and the fields its operation was started with.
OneOperationAtATime ==
    [][/\ ~(fq.pc = "awaiting" /\ gc.pc \in {"phase1", "phase2"})
       /\ timer.pending => (fq.pc # "awaiting" /\ gc.pc \notin {"phase1", "phase2"})
       /\ (awaiting # "none" \/ timer.pending) => state.isLoading
       /\ state.isLoading => lastEvent'.name \notin FormEvents
       /\ lastEvent'.name = "resumeGoToStep2"
             => /\ state.step = DESCRIPTION
                /\ fq.description = state.data.description
                /\ fq.image = stripBase64Prefix(state.data.productImage)
       /\ lastEvent'.name \in {"resumeGenerate", "timerFires"}
             => /\ state.step = TECHNICAL_DETAILS
                /\ gc.data = SubmittedData(state.data)]_vars

============================================================================
